---- MODULE Spec2Model ----
(***************************************************************************)
(* Survey-to-design registration (src/autocad_integration.py).            *)
(*                                                                         *)
(* main() connects to AutoCAD, reads the selected COGO points, reference   *)
(* polylines and texts, maps the COGO points onto labelled reference       *)
(* vertices (map_points), filters the correspondences with RANSAC          *)
(* (remove_outliers), solves the rigid transform (kabsch_transform), draws *)
(* the transformed points and finally deletes its selection sets.          *)
(*                                                                         *)
(* Coordinates are integers in drawing units; a point is <<x, y>>.  A      *)
(* string is a sequence of one-character strings, so that strip() and      *)
(* upper() are computed.  Python's None is the empty tuple.                *)
(***************************************************************************)
EXTENDS Integers, Sequences, FiniteSets, TLC

VARIABLES
    pc,              \* position of main(), or of the function under study
    acad,            \* TRUE once initialize_autocad() returned a connection
    selsets,         \* names of the document's selection sets, in index order
    cogo_points,     \* list of [Number, X, Y, Description]
    polylines,       \* list of [Vertices]
    texts,           \* list of [Position, Content]
    vertex_labels,   \* map_points: the label dictionary, in insertion order
    text_idx,        \* map_points: index of the next text of the loop at line 107
    real_points,     \* matched surveyed positions (map_points' first result)
    ideal_points,    \* matched ideal positions (map_points' second result)
    missing_labels,  \* map_points: labels that are no key of vertex_labels
    real_clean,      \* remove_outliers' first result
    ideal_clean,     \* remove_outliers' second result
    fit_failed,      \* TRUE when RANSAC raised inside remove_outliers
    R,               \* rotation returned by kabsch_transform, None on failure
    t,               \* translation returned by kabsch_transform, None on failure
    drawn,           \* points added to the model space by AddPoint, in order
    raised,          \* message of the exception main() caught, "" if none
    cleaned,         \* TRUE once the finally block of main() was entered
    calls            \* the functions main() has invoked, in order

vars == <<pc, acad, selsets, cogo_points, polylines, texts, vertex_labels,
          text_idx, real_points, ideal_points, missing_labels, real_clean,
          ideal_clean, fit_failed, R, t, drawn, raised, cleaned, calls>>

None == <<>>

(***************************************************************************)
(* Bounds of the model.                                                    *)
(***************************************************************************)
MaxCogo == 3       \* COGO points in a selection
MaxPolys == 2      \* reference polylines in a selection
MaxVerts == 2      \* vertices of a polyline
MaxTexts == 2      \* reference texts in a selection
MaxPairs == 3      \* correspondence pairs handed to the filter or the solver

(***************************************************************************)
(* Program constants.                                                      *)
(***************************************************************************)
TextThreshold == 5             \* line 115: distance < 5.0
ResidualThresholdTimes2 == 1   \* line 183: residual_threshold = 0.5
MinSamples == 2                \* line 182: min_samples = 2
MinPoints == 2                 \* line 202: len(real_points) < 2

(***************************************************************************)
(* Sequences and arithmetic.                                               *)
(***************************************************************************)
SeqsUpTo(S, n) == UNION {[1..k -> S] : k \in 0..n}

NonEmptySeqsUpTo(S, n) == UNION {[1..k -> S] : k \in 1..n}

Abs(x) == IF x < 0 THEN -x ELSE x

RECURSIVE SumOver(_, _)
SumOver(f, n) == IF n = 0 THEN 0 ELSE f[n] + SumOver(f, n - 1)

(***************************************************************************)
(* Strings: str(), strip(), upper(), the f-string of line 102.             *)
(***************************************************************************)
Digit(n) == <<"0", "1", "2", "3", "4", "5", "6", "7", "8", "9">>[n + 1]

RECURSIVE Str(_)
Str(n) == IF n < 10 THEN <<Digit(n)>> ELSE Str(n \div 10) \o <<Digit(n % 10)>>

IsSpace(c) == c \in {" ", "\t", "\n"}

RECURSIVE LStrip(_)
LStrip(s) == IF s # <<>> /\ IsSpace(Head(s)) THEN LStrip(Tail(s)) ELSE s

RECURSIVE RStrip(_)
RStrip(s) ==
    IF s # <<>> /\ IsSpace(s[Len(s)]) THEN RStrip(SubSeq(s, 1, Len(s) - 1)) ELSE s

Strip(s) == RStrip(LStrip(s))

UpperChar(c) ==
    CASE c = "v" -> "V"
      [] c = "p" -> "P"
      [] OTHER -> c

Upper(s) == [i \in 1..Len(s) |-> UpperChar(s[i])]

\* line 126: cogo['Description'].strip().upper()
NormalizeNoUpper(desc) == Strip(desc)

Normalize(desc) == Upper(Strip(desc))

\* line 102: f"V{poly_idx+1}-{vert_idx+1}", the indices 0-based as enumerate gives
LabelVertexOnly(poly_idx, vert_idx) == <<"V">> \o <<"-">> \o Str(vert_idx + 1)

Label(poly_idx, vert_idx) ==
    <<"V">> \o Str(poly_idx + 1) \o <<"-">> \o Str(vert_idx + 1)

(***************************************************************************)
(* Geometry: APoint.distance_to is the Euclidean distance; distances are   *)
(* compared by their squares, which orders them the same way.              *)
(***************************************************************************)
DistSq(p, q) == (p[1] - q[1]) * (p[1] - q[1]) + (p[2] - q[2]) * (p[2] - q[2])

(***************************************************************************)
(* The dictionary vertex_labels: a list of [key, value] in insertion       *)
(* order, as Python iterates it.                                           *)
(***************************************************************************)
KeySet(d) == {d[i].key : i \in 1..Len(d)}

Lookup(d, k) == d[CHOOSE i \in 1..Len(d) : d[i].key = k].value

\* d[k] = v: overwrite in place when k is a key, append otherwise
DictSet(d, k, v) ==
    IF k \in KeySet(d)
    THEN [i \in 1..Len(d) |-> IF d[i].key = k THEN [key |-> k, value |-> v] ELSE d[i]]
    ELSE Append(d, [key |-> k, value |-> v])

\* lines 101-103: the vertices of one polyline
RECURSIVE LabelVertices(_, _, _, _)
LabelVertices(d, poly_idx, vertices, vert_idx) ==
    IF vert_idx >= Len(vertices) THEN d
    ELSE LabelVertices(DictSet(d, Label(poly_idx, vert_idx), vertices[vert_idx + 1]),
                       poly_idx, vertices, vert_idx + 1)

\* lines 99-103: every polyline
RECURSIVE LabelPolylines(_, _, _)
LabelPolylines(d, polys, poly_idx) ==
    IF poly_idx >= Len(polys) THEN d
    ELSE LabelPolylines(LabelVertices(d, poly_idx, polys[poly_idx + 1].Vertices, 0),
                        polys, poly_idx + 1)

\* lines 109-113: min(vertex_labels.items(), key = distance to the text); Python's
\* min keeps the first of several minimal items
RECURSIVE ClosestFromLastWins(_, _, _, _)
ClosestFromLastWins(d, text_pos, i, best) ==
    IF i > Len(d) THEN best
    ELSE ClosestFromLastWins(d, text_pos, i + 1,
             IF DistSq(text_pos, d[i].value) <= DistSq(text_pos, d[best].value)
             THEN i ELSE best)

RECURSIVE ClosestFrom(_, _, _, _)
ClosestFrom(d, text_pos, i, best) ==
    IF i > Len(d) THEN best
    ELSE ClosestFrom(d, text_pos, i + 1,
             IF DistSq(text_pos, d[i].value) < DistSq(text_pos, d[best].value)
             THEN i ELSE best)

\* index of the closest item, 0 for the default None of an empty dictionary
Closest(d, text_pos) == IF d = <<>> THEN 0 ELSE ClosestFrom(d, text_pos, 2, 1)

\* line 115: distance < 5.0
WithinThreshold(p, q) == DistSq(p, q) < TextThreshold * TextThreshold

\* lines 108-119: one text of the loop
AssociateText(d, text) ==
    LET c == Closest(d, text.Position) IN
    IF c # 0 /\ WithinThreshold(text.Position, d[c].value)
    THEN DictSet(d, d[c].key, text.Position)
    ELSE d

(***************************************************************************)
(* lines 122-136: the loop over the COGO points.                           *)
(***************************************************************************)
Matched(d, cogo) ==
    LET label == Normalize(cogo.Description) IN label # <<>> /\ label \in KeySet(d)

Missing(d, cogo) ==
    LET label == Normalize(cogo.Description) IN label # <<>> /\ label \notin KeySet(d)

RECURSIVE MapCogoReal(_, _)
MapCogoReal(d, cogos) ==
    IF cogos = <<>> THEN <<>>
    ELSE (IF Matched(d, Head(cogos)) THEN <<<<Head(cogos).X, Head(cogos).Y>>>> ELSE <<>>)
         \o MapCogoReal(d, Tail(cogos))

RECURSIVE MapCogoIdeal(_, _)
MapCogoIdeal(d, cogos) ==
    IF cogos = <<>> THEN <<>>
    ELSE (IF Matched(d, Head(cogos))
          THEN <<Lookup(d, Normalize(Head(cogos).Description))>> ELSE <<>>)
         \o MapCogoIdeal(d, Tail(cogos))

MapCogoMissing(d, cogos) ==
    {Normalize(cogos[i].Description) : i \in {j \in 1..Len(cogos) : Missing(d, cogos[j])}}

(***************************************************************************)
(* remove_outliers.  RANSACRegressor(min_samples=2, residual_threshold=0.5)*)
(* over a LinearRegression: every trial draws two samples i, j, fits the   *)
(* minimum-norm line through them and takes as inliers the points whose    *)
(* absolute residual, summed over the two outputs, is at most the          *)
(* threshold.  With d = X_i - X_j and D = d.d the fit predicts, at X_k,    *)
(*   (y_i + y_j)/2 + (y_i - y_j) * (d.(2 X_k - X_i - X_j)) / (2 D)         *)
(* and the mean (y_i + y_j)/2 when D = 0.  The residuals are compared      *)
(* after multiplying by 2 D (by 2 when D = 0), in integers.                *)
(***************************************************************************)
Dot(p, q) == p[1] * q[1] + p[2] * q[2]

SampleSpread(real, i, j) ==
    LET d == <<real[i][1] - real[j][1], real[i][2] - real[j][2]>> IN Dot(d, d)

ResidualScale(real, i, j) ==
    IF SampleSpread(real, i, j) = 0 THEN 1 ELSE SampleSpread(real, i, j)

\* 2 * ResidualScale * (residual of point k under the fit through samples i, j)
ScaledResidual(real, ideal, i, j, k) ==
    LET d == <<real[i][1] - real[j][1], real[i][2] - real[j][2]>>
        along == IF SampleSpread(real, i, j) = 0 THEN 0
                 ELSE Dot(d, <<2 * real[k][1] - real[i][1] - real[j][1],
                               2 * real[k][2] - real[i][2] - real[j][2]>>)
        s == ResidualScale(real, i, j)
        res(c) == 2 * s * ideal[k][c] - s * (ideal[i][c] + ideal[j][c])
                  - (ideal[i][c] - ideal[j][c]) * along
    IN Abs(res(1)) + Abs(res(2))

\* inlier_mask_subset of the trial that sampled i and j
TrialInliers(real, ideal, i, j) ==
    {k \in 1..Len(real) :
        ScaledResidual(real, ideal, i, j, k)
            <= ResidualScale(real, i, j) * ResidualThresholdTimes2}

Trials(n) == {s \in (1..n) \X (1..n) : s[1] < s[2]}

\* What model.fit can end in: the inlier mask of a trial that found inliers (the
\* random sampling decides which trials are drawn, so any such trial can be the
\* best one drawn), or a ValueError: fewer samples than min_samples, or no drawn
\* trial with an inlier.
RansacFit(real, ideal) ==
    IF Len(real) < MinSamples THEN {[ok |-> FALSE, mask |-> {}]}
    ELSE LET masks == {TrialInliers(real, ideal, s[1], s[2]) : s \in Trials(Len(real))}
         IN {[ok |-> TRUE, mask |-> m] : m \in masks \ {{}}}
            \cup (IF {} \in masks THEN {[ok |-> FALSE, mask |-> {}]} ELSE {})

\* points[mask]: boolean-mask indexing keeps the selected rows in order
RECURSIVE SelectMask(_, _, _)
SelectMask(points, mask, i) ==
    IF i > Len(points) THEN <<>>
    ELSE (IF i \in mask THEN <<points[i]>> ELSE <<>>) \o SelectMask(points, mask, i + 1)

\* lines 176-190: the possible results of remove_outliers
RemoveOutliersResultsNoFallback(real, ideal) ==
    IF Len(real) = 0 \/ Len(ideal) = 0
    THEN {[real |-> real, ideal |-> ideal, failed |-> FALSE]}
    ELSE {IF fit.ok
          THEN [real |-> SelectMask(real, fit.mask, 1),
                ideal |-> SelectMask(ideal, fit.mask, 1), failed |-> FALSE]
          ELSE [real |-> <<>>, ideal |-> <<>>, failed |-> TRUE] :
             fit \in RansacFit(real, ideal)}

RemoveOutliersResults(real, ideal) ==
    IF Len(real) = 0 \/ Len(ideal) = 0
    THEN {[real |-> real, ideal |-> ideal, failed |-> FALSE]}
    ELSE {IF fit.ok
          THEN [real |-> SelectMask(real, fit.mask, 1),
                ideal |-> SelectMask(ideal, fit.mask, 1), failed |-> FALSE]
          ELSE [real |-> real, ideal |-> ideal, failed |-> TRUE] :
             fit \in RansacFit(real, ideal)}

(***************************************************************************)
(* kabsch_transform.  Centroids are sums over n; the centred points and H  *)
(* are carried multiplied by n and n*n.  np.linalg.svd returns some        *)
(* decomposition H = U diag(S) Vt with U, Vt orthogonal and S descending   *)
(* and non-negative; the model chooses among those with U and Vt signed    *)
(* permutation matrices, which exist when H has at most one non-zero entry *)
(* in each row and column.                                                 *)
(***************************************************************************)
SumVec(points) ==
    <<SumOver([i \in 1..Len(points) |-> points[i][1]], Len(points)),
      SumOver([i \in 1..Len(points) |-> points[i][2]], Len(points))>>

\* n * (points - centroid)
Centered(points) ==
    LET n == Len(points)
        s == SumVec(points)
    IN [i \in 1..n |-> <<n * points[i][1] - s[1], n * points[i][2] - s[2]>>]

\* line 159: H = (ideal - centroid_ideal).T @ (real - centroid_real), times n*n
CrossCovariance(real, ideal) ==
    LET rc == Centered(real)
        ic == Centered(ideal)
        n == Len(real)
    IN [a \in 1..2 |-> [b \in 1..2 |->
           SumOver([i \in 1..n |-> ic[i][a] * rc[i][b]], n)]]

MatMul(A, B) ==
    [i \in 1..2 |-> [j \in 1..2 |-> A[i][1] * B[1][j] + A[i][2] * B[2][j]]]

MatVec(A, v) == <<A[1][1] * v[1] + A[1][2] * v[2], A[2][1] * v[1] + A[2][2] * v[2]>>

Det(A) == A[1][1] * A[2][2] - A[1][2] * A[2][1]

Diag(S) == <<<<S[1], 0>>, <<0, S[2]>>>>

Orthogonal ==
    {<<<<a, 0>>, <<0, b>>>> : a \in {-1, 1}, b \in {-1, 1}}
    \cup {<<<<0, a>>, <<b, 0>>>> : a \in {-1, 1}, b \in {-1, 1}}

Transpose(A) == <<<<A[1][1], A[2][1]>>, <<A[1][2], A[2][2]>>>>

\* line 160: the decompositions np.linalg.svd can return
Svd(H) ==
    LET mags == {Abs(H[a][b]) : a \in 1..2, b \in 1..2}
    IN {d \in [U : Orthogonal, S : mags \X mags, Vt : Orthogonal] :
           /\ d.S[1] >= d.S[2]
           /\ MatMul(MatMul(d.U, Diag(d.S)), d.Vt) = H}

\* line 164: Vt[-1, :] *= -1
NegateLastRow(Vt) == <<Vt[1], <<-Vt[2][1], -Vt[2][2]>>>>

\* lines 161-165
RotationUncorrected(d) == MatMul(d.U, d.Vt)

\* line 163
NeedsCorrection(d) == Det(MatMul(d.U, d.Vt)) < 0

Rotation(d) ==
    IF NeedsCorrection(d)
    THEN MatMul(d.U, NegateLastRow(d.Vt))
    ELSE MatMul(d.U, d.Vt)

\* line 167: t = centroid_ideal - R @ centroid_real, as numerator over n
Translation(rot, real, ideal) ==
    LET sr == MatVec(rot, SumVec(real))
        si == SumVec(ideal)
    IN [num |-> <<si[1] - sr[1], si[2] - sr[2]>>, den |-> Len(real)]

\* line 153: an empty input raises, and kabsch_transform returns None, None
KabschFails(real, ideal) == Len(real) = 0 \/ Len(ideal) = 0

\* lines 152-172: the possible results of kabsch_transform
KabschResults(real, ideal) ==
    IF KabschFails(real, ideal)
    THEN {[R |-> None, t |-> None]}
    ELSE {[R |-> Rotation(d), t |-> Translation(Rotation(d), real, ideal)] :
             d \in Svd(CrossCovariance(real, ideal))}

\* line 210: transformed = R @ point + t, as numerators over t.den
Transform(rot, trans, point) ==
    LET rp == MatVec(rot, point)
    IN [x |-> trans.den * rp[1] + trans.num[1],
        y |-> trans.den * rp[2] + trans.num[2],
        den |-> trans.den]

(***************************************************************************)
(* What the user selects in the drawing.                                   *)
(***************************************************************************)
SurveyX == {0, 1}

\* "V1-1", " v1-2", "V1-3 ", "P9"
SurveyDescriptions ==
    {<<"V", "1", "-", "1">>, <<" ", "v", "1", "-", "2">>,
     <<"V", "1", "-", "3", " ">>, <<"P", "9">>}

CogoLists(xs, descs, n) ==
    UNION {{[i \in 1..k |-> [Number |-> i, X |-> f[i][1], Y |-> 0,
                             Description |-> f[i][2]]] :
               f \in [1..k -> xs \X descs]} : k \in 0..n}

Poly(vs) == [Vertices |-> vs]

Text(p) == [Position |-> p, Content |-> <<"M">>]

\* <<polylines, texts>>: nothing, one polyline of three vertices, the same with a
\* text next to its second vertex, two polylines
ReferenceSelections ==
    {<<<<>>, <<>>>>,
     <<<<Poly(<<<<0, 0>>, <<4, 0>>, <<2, 0>>>>)>>, <<>>>>,
     <<<<Poly(<<<<0, 0>>, <<4, 0>>, <<2, 0>>>>)>>, <<Text(<<5, 0>>)>>>>,
     <<<<Poly(<<<<0, 0>>, <<3, 0>>>>), Poly(<<<<1, 0>>>>)>>, <<>>>>}

InitialSelectionSets == {<<"USER">>, <<"USER", "SURVEY_SET", "REF_SET">>}

Range(s) == {s[i] : i \in 1..Len(s)}

\* lines 31-39, 58-66: reuse the named selection set or add it
EnsureSet(ss, name) == IF name \in Range(ss) THEN ss ELSE Append(ss, name)

OwnSet(name) == name \in {"SURVEY_SET", "REF_SET"}

RECURSIVE Keep(_)
Keep(ss) ==
    IF ss = <<>> THEN <<>>
    ELSE (IF OwnSet(Head(ss)) THEN <<>> ELSE <<Head(ss)>>) \o Keep(Tail(ss))

\* lines 218-221 after `done` items, from the last index down, were handled
AfterDeleting(ss, done) ==
    SubSeq(ss, 1, Len(ss) - done) \o Keep(SubSeq(ss, Len(ss) - done + 1, Len(ss)))

(***************************************************************************)
(* main()                                                                  *)
(***************************************************************************)
TooFewMessage == "Minimo de 2 pontos requeridos para transformacao"

AddPointMessage == "AddPoint failed"

\* line 202
MinimumMetAlways(points) == TRUE

MinimumMet(points) == ~(Len(points) < MinPoints)

\* lines 214-216: an exception raised in the try block is logged, then the finally
\* block runs
AfterRaiseReturn == "done"

AfterRaise == "cleanup"

\* line 209: for point in real_points
PointsToDrawFiltered == real_clean

PointsToDraw == real_points

Init ==
    /\ pc = "init"
    /\ acad = FALSE
    /\ selsets \in InitialSelectionSets
    /\ cogo_points = <<>>
    /\ polylines = <<>>
    /\ texts = <<>>
    /\ vertex_labels = <<>>
    /\ text_idx = 1
    /\ real_points = <<>>
    /\ ideal_points = <<>>
    /\ missing_labels = {}
    /\ real_clean = <<>>
    /\ ideal_clean = <<>>
    /\ fit_failed = FALSE
    /\ R = None
    /\ t = None
    /\ drawn = <<>>
    /\ raised = ""
    /\ cleaned = FALSE
    /\ calls = <<>>

\* lines 194-196
InitializeAutocad ==
    /\ pc = "init"
    /\ \E ok \in BOOLEAN :
          /\ acad' = ok
          /\ pc' = IF ok THEN "select" ELSE "done"
    /\ UNCHANGED <<selsets, cogo_points, polylines, texts, vertex_labels, text_idx,
                   real_points, ideal_points, missing_labels, real_clean,
                   ideal_clean, fit_failed, R, t, drawn, raised, cleaned, calls>>

\* line 199, lines 23-85: the selection succeeds, or an exception after `made`
\* of the two selection sets were prepared makes it return [], [], []
SelectSurveyAndReferenceData ==
    /\ pc = "select"
    /\ \E made \in 0..3 :
          LET s1 == IF made >= 1 THEN EnsureSet(selsets, "SURVEY_SET") ELSE selsets
              s2 == IF made >= 2 THEN EnsureSet(s1, "REF_SET") ELSE s1
          IN /\ selsets' = s2
             /\ IF made = 3
                THEN /\ cogo_points' \in CogoLists(SurveyX, SurveyDescriptions, MaxCogo)
                     /\ \E ref \in ReferenceSelections :
                           /\ polylines' = ref[1]
                           /\ texts' = ref[2]
                ELSE /\ cogo_points' = <<>>
                     /\ polylines' = <<>>
                     /\ texts' = <<>>
    /\ pc' = "map"
    /\ calls' = Append(calls, "select_survey_and_reference_data")
    /\ UNCHANGED <<acad, vertex_labels, text_idx, real_points, ideal_points,
                   missing_labels, real_clean, ideal_clean, fit_failed, R, t,
                   drawn, raised, cleaned>>

\* line 200, lines 89-103: without polylines map_points raises and returns two
\* empty arrays; otherwise the vertices are labelled
MapLabels ==
    /\ pc = "map"
    /\ calls' = Append(calls, "map_points")
    /\ text_idx' = 1
    /\ IF polylines = <<>>
       THEN /\ vertex_labels' = <<>>
            /\ pc' = "check"
       ELSE /\ vertex_labels' = LabelPolylines(<<>>, polylines, 0)
            /\ pc' = IF texts = <<>> THEN "cogo" ELSE "texts"
    /\ real_points' = <<>>
    /\ ideal_points' = <<>>
    /\ missing_labels' = {}
    /\ UNCHANGED <<acad, selsets, cogo_points, polylines, texts, real_clean,
                   ideal_clean, fit_failed, R, t, drawn, raised, cleaned>>

\* lines 107-119: one text
MapText ==
    /\ pc = "texts"
    /\ vertex_labels' = AssociateText(vertex_labels, texts[text_idx])
    /\ text_idx' = text_idx + 1
    /\ pc' = IF text_idx = Len(texts) THEN "cogo" ELSE "texts"
    /\ UNCHANGED <<acad, selsets, cogo_points, polylines, texts, real_points,
                   ideal_points, missing_labels, real_clean, ideal_clean,
                   fit_failed, R, t, drawn, raised, cleaned, calls>>

\* lines 122-148: the COGO points; without a match map_points raises and returns
\* two empty arrays, as the lists then are
MapCogo ==
    /\ pc = "cogo"
    /\ real_points' = MapCogoReal(vertex_labels, cogo_points)
    /\ ideal_points' = MapCogoIdeal(vertex_labels, cogo_points)
    /\ missing_labels' = MapCogoMissing(vertex_labels, cogo_points)
    /\ pc' = "check"
    /\ UNCHANGED <<acad, selsets, cogo_points, polylines, texts, vertex_labels,
                   text_idx, real_clean, ideal_clean, fit_failed, R, t, drawn,
                   raised, cleaned, calls>>

\* lines 202-203
CheckMinimum ==
    /\ pc = "check"
    /\ IF MinimumMet(real_points)
       THEN /\ pc' = "filter"
            /\ raised' = raised
       ELSE /\ pc' = AfterRaise
            /\ raised' = TooFewMessage
    /\ UNCHANGED <<acad, selsets, cogo_points, polylines, texts, vertex_labels,
                   text_idx, real_points, ideal_points, missing_labels, real_clean,
                   ideal_clean, fit_failed, R, t, drawn, cleaned, calls>>

\* line 205
RemoveOutliers ==
    /\ pc = "filter"
    /\ \E res \in RemoveOutliersResults(real_points, ideal_points) :
          /\ real_clean' = res.real
          /\ ideal_clean' = res.ideal
          /\ fit_failed' = res.failed
    /\ pc' = "solve"
    /\ calls' = Append(calls, "remove_outliers")
    /\ UNCHANGED <<acad, selsets, cogo_points, polylines, texts, vertex_labels,
                   text_idx, real_points, ideal_points, missing_labels, R, t,
                   drawn, raised, cleaned>>

\* line 206, lines 150-172
KabschTransform ==
    /\ pc = "solve"
    /\ \E res \in KabschResults(real_clean, ideal_clean) :
          /\ R' = res.R
          /\ t' = res.t
    /\ pc' = "apply"
    /\ calls' = Append(calls, "kabsch_transform")
    /\ UNCHANGED <<acad, selsets, cogo_points, polylines, texts, vertex_labels,
                   text_idx, real_points, ideal_points, missing_labels, real_clean,
                   ideal_clean, fit_failed, drawn, raised, cleaned>>

\* lines 208-212: the points are added one by one; AddPoint may raise after
\* `k` of them were added
ApplyTransform ==
    /\ pc = "apply"
    /\ IF R = None
       THEN /\ drawn' = drawn
            /\ raised' = raised
            /\ pc' = "cleanup"
            /\ calls' = calls
       ELSE \E k \in 0..Len(PointsToDraw) :
               /\ drawn' = [i \in 1..k |-> Transform(R, t, PointsToDraw[i])]
               /\ raised' = IF k < Len(PointsToDraw) THEN AddPointMessage ELSE raised
               /\ pc' = IF k < Len(PointsToDraw) THEN AfterRaise ELSE "cleanup"
               /\ calls' = Append(calls, "AddPoint")
    /\ UNCHANGED <<acad, selsets, cogo_points, polylines, texts, vertex_labels,
                   text_idx, real_points, ideal_points, missing_labels, real_clean,
                   ideal_clean, fit_failed, R, t, cleaned>>

\* lines 216-223: the finally block; an exception after `handled` selection sets
\* is logged and ends the loop
Cleanup ==
    /\ pc = "cleanup"
    /\ \E handled \in 0..Len(selsets) : selsets' = AfterDeleting(selsets, handled)
    /\ cleaned' = TRUE
    /\ pc' = "done"
    /\ calls' = Append(calls, "cleanup")
    /\ UNCHANGED <<acad, cogo_points, polylines, texts, vertex_labels, text_idx,
                   real_points, ideal_points, missing_labels, real_clean,
                   ideal_clean, fit_failed, R, t, drawn, raised>>

Next ==
    \/ InitializeAutocad
    \/ SelectSurveyAndReferenceData
    \/ MapLabels
    \/ MapText
    \/ MapCogo
    \/ CheckMinimum
    \/ RemoveOutliers
    \/ KabschTransform
    \/ ApplyTransform
    \/ Cleanup

Spec == Init /\ [][Next]_vars

(***************************************************************************)
(* map_points on its own: labelling and text association, lines 98-119.    *)
(***************************************************************************)
RefVertices == {<<0, 0>>, <<6, 0>>}

TextPositions == {<<3, 0>>, <<3, 4>>, <<0, 8>>}

PolylineLists ==
    SeqsUpTo({Poly(vs) : vs \in NonEmptySeqsUpTo(RefVertices, MaxVerts)}, MaxPolys)

TextLists == SeqsUpTo({Text(p) : p \in TextPositions}, MaxTexts)

InitMapping ==
    /\ pc = "map"
    /\ acad = TRUE
    /\ selsets = <<"USER", "SURVEY_SET", "REF_SET">>
    /\ cogo_points = <<>>
    /\ polylines \in PolylineLists
    /\ texts \in TextLists
    /\ vertex_labels = <<>>
    /\ text_idx = 1
    /\ real_points = <<>>
    /\ ideal_points = <<>>
    /\ missing_labels = {}
    /\ real_clean = <<>>
    /\ ideal_clean = <<>>
    /\ fit_failed = FALSE
    /\ R = None
    /\ t = None
    /\ drawn = <<>>
    /\ raised = ""
    /\ cleaned = FALSE
    /\ calls = <<"select_survey_and_reference_data">>

NextMapping == MapLabels \/ MapText

SpecMapping == InitMapping /\ [][NextMapping]_vars

(***************************************************************************)
(* map_points on its own: the loop over the COGO points, lines 122-136.    *)
(***************************************************************************)
\* the descriptions of a survey, and "" and " "
MatchDescriptions == SurveyDescriptions \cup {<<>>, <<" ">>}

MatchDictionaries ==
    {LabelPolylines(<<>>, ref[1], 0) : ref \in {r \in ReferenceSelections : r[1] # <<>>}}

InitMatch ==
    /\ pc = "cogo"
    /\ acad = TRUE
    /\ selsets = <<"USER", "SURVEY_SET", "REF_SET">>
    /\ cogo_points \in CogoLists(SurveyX, MatchDescriptions, MaxCogo)
    /\ polylines = <<>>
    /\ texts = <<>>
    /\ vertex_labels \in MatchDictionaries
    /\ text_idx = 1
    /\ real_points = <<>>
    /\ ideal_points = <<>>
    /\ missing_labels = {}
    /\ real_clean = <<>>
    /\ ideal_clean = <<>>
    /\ fit_failed = FALSE
    /\ R = None
    /\ t = None
    /\ drawn = <<>>
    /\ raised = ""
    /\ cleaned = FALSE
    /\ calls = <<"select_survey_and_reference_data", "map_points">>

NextMatch == MapCogo

SpecMatch == InitMatch /\ [][NextMatch]_vars

(***************************************************************************)
(* remove_outliers on its own.                                             *)
(***************************************************************************)
FilterReal == {<<0, 0>>, <<1, 0>>, <<0, 1>>}

FilterIdeal == {<<0, 0>>, <<1, 0>>, <<2, 0>>, <<0, 1>>}

PairLists(reals, ideals, n) == SeqsUpTo(reals \X ideals, n)

Firsts(pairs) == [i \in 1..Len(pairs) |-> pairs[i][1]]

Seconds(pairs) == [i \in 1..Len(pairs) |-> pairs[i][2]]

InitFilter ==
    /\ pc = "filter"
    /\ acad = TRUE
    /\ selsets = <<"USER", "SURVEY_SET", "REF_SET">>
    /\ cogo_points = <<>>
    /\ polylines = <<>>
    /\ texts = <<>>
    /\ vertex_labels = <<>>
    /\ text_idx = 1
    /\ \E pairs \in PairLists(FilterReal, FilterIdeal, MaxPairs) :
          /\ real_points = Firsts(pairs)
          /\ ideal_points = Seconds(pairs)
    /\ missing_labels = {}
    /\ real_clean = <<>>
    /\ ideal_clean = <<>>
    /\ fit_failed = FALSE
    /\ R = None
    /\ t = None
    /\ drawn = <<>>
    /\ raised = ""
    /\ cleaned = FALSE
    /\ calls = <<>>

NextFilter == RemoveOutliers

SpecFilter == InitFilter /\ [][NextFilter]_vars

(***************************************************************************)
(* kabsch_transform on its own, over the inputs whose cross-covariance has *)
(* a decomposition the model represents.                                   *)
(***************************************************************************)
KabschPoints == {<<-1, 0>>, <<1, 0>>, <<0, 1>>}

InitKabsch ==
    /\ pc = "solve"
    /\ acad = TRUE
    /\ selsets = <<"USER", "SURVEY_SET", "REF_SET">>
    /\ cogo_points = <<>>
    /\ polylines = <<>>
    /\ texts = <<>>
    /\ vertex_labels = <<>>
    /\ text_idx = 1
    /\ real_points = <<>>
    /\ ideal_points = <<>>
    /\ missing_labels = {}
    /\ \E pairs \in PairLists(KabschPoints, KabschPoints, MaxPairs) :
          /\ pairs # <<>> =>
                Svd(CrossCovariance(Firsts(pairs), Seconds(pairs))) # {}
          /\ real_clean = Firsts(pairs)
          /\ ideal_clean = Seconds(pairs)
    /\ fit_failed = FALSE
    /\ R = None
    /\ t = None
    /\ drawn = <<>>
    /\ raised = ""
    /\ cleaned = FALSE
    /\ calls = <<>>

NextKabsch == KabschTransform

SpecKabsch == InitKabsch /\ [][NextKabsch]_vars

(***************************************************************************)
(* Properties.                                                             *)
(***************************************************************************)
Called(f) == f \in Range(calls)

\* the run ended without an exception in main() and with a transform
Success == pc = "done" /\ acad /\ raised = "" /\ R # None

Position(cogo) == <<cogo.X, cogo.Y>>

\* the label a description stands for: trimmed, then upper-cased
LabelOf(cogo) == Upper(Strip(cogo.Description))

IsKey(label) == \E k \in 1..Len(vertex_labels) : vertex_labels[k].key = label

RECURSIVE MatchedPoints(_)
MatchedPoints(cogos) ==
    IF cogos = <<>> THEN <<>>
    ELSE (IF IsKey(LabelOf(Head(cogos))) THEN <<Head(cogos)>> ELSE <<>>)
         \o MatchedPoints(Tail(cogos))

\* C1 as stated: on a successful run the transformed points are the transforms of
\* all the surveyed points, in order: same count, same order, matched or not.
C1_FullSurveyedSet ==
    Success =>
        /\ Len(drawn) = Len(cogo_points)
        /\ \A i \in 1..Len(cogo_points) :
              drawn[i] = Transform(R, t, Position(cogo_points[i]))

\* C1 (amended): on a successful run the transformed points are the transforms of
\* the matched surveyed points (those whose normalized label is a key of the ideal
\* mapping), in surveyed order and whether or not the filter kept them; an
\* unmatched surveyed point yields no transformed point.
C1_FullMatchedSet ==
    Success =>
        LET m == MatchedPoints(cogo_points) IN
        /\ Len(drawn) = Len(m)
        /\ \A i \in 1..Len(m) : drawn[i] = Transform(R, t, Position(m[i]))

\* a successful run in which the filter rejected a matched pair, whose point was
\* drawn all the same
C1_Witness ==
    /\ Success
    /\ Len(real_clean) < Len(real_points)
    /\ Len(drawn) = Len(real_points)

\* C2: a run ends with all the points to be transformed drawn or with none drawn,
\* never with some but not all of them.
C2_NoPartialTransform ==
    pc = "done" => (drawn = <<>> \/ Len(drawn) = Len(real_points))

\* C3 as stated: every exit of main() has run the cleanup step, after the last
\* stage executed.
C3_CleanupOnEveryExit ==
    pc = "done" => (cleaned /\ calls # <<>> /\ calls[Len(calls)] = "cleanup")

PcRank(p) ==
    CASE p = "init" -> 0
      [] p = "select" -> 1
      [] p = "map" -> 2
      [] p = "texts" -> 3
      [] p = "cogo" -> 4
      [] p = "check" -> 5
      [] p = "filter" -> 6
      [] p = "solve" -> 7
      [] p = "apply" -> 8
      [] p = "cleanup" -> 9
      [] OTHER -> 10

\* C3 (amended): once the AutoCAD connection is established, every exit of main()
\* has run the cleanup step, whether the run succeeded or a stage failed, and the
\* cleanup is the last step executed: until it has run a step is always possible
\* (at the solver: kabsch_transform has a result), every step advances the run, and
\* nothing is called after it.  When the
\* connection fails main() returns before any stage and without the cleanup.
C3_CleanupAfterConnection ==
    /\ [](pc = "done" /\ acad =>
            cleaned /\ calls # <<>> /\ calls[Len(calls)] = "cleanup")
    /\ [](pc = "done" /\ ~acad => ~cleaned /\ calls = <<>>)
    /\ [](pc \notin {"done", "solve"} => ENABLED Next)
    /\ [](pc = "solve" => KabschResults(real_clean, ideal_clean) # {})
    /\ [][PcRank(pc') > PcRank(pc) \/ (pc' = pc /\ text_idx' > text_idx)]_vars
    /\ [][cleaned => UNCHANGED calls]_vars

\* a run in which a stage failed and the cleanup ran
C3_Witness == pc = "done" /\ acad /\ raised # "" /\ cleaned

\* the places <<p, v>> of the vertices, 1-based, and the key of a place
VertexSlots(polys) ==
    UNION {{<<p, v>> : v \in 1..Len(polys[p].Vertices)} : p \in 1..Len(polys)}

KeyOf(slot) == <<"V">> \o Str(slot[1]) \o <<"-">> \o Str(slot[2])

EmptyReference == polylines = <<>>

NoCorrespondence ==
    \A i \in 1..Len(cogo_points) :
        LabelOf(cogo_points[i]) \notin {KeyOf(slot) : slot \in VertexSlots(polylines)}

MapReturned == Called("map_points") /\ pc \notin {"texts", "cogo"}

\* C4: when map_points fails, for want of a reference polyline or of a surveyed
\* label that matches an ideal label, the filter, the solver and the applicator
\* are never invoked afterwards, no point is output and the run ends in failure.
C4_MappingFailureShortCircuits ==
    MapReturned /\ (EmptyReference \/ NoCorrespondence) =>
        /\ ~Called("remove_outliers")
        /\ ~Called("kabsch_transform")
        /\ ~Called("AddPoint")
        /\ R = None
        /\ drawn = <<>>
        /\ pc = "done" => raised # ""

\* a finished run whose surveyed labels matched no label of the selected polylines
C4_Witness ==
    /\ pc = "done"
    /\ cleaned
    /\ polylines # <<>>
    /\ cogo_points # <<>>
    /\ NoCorrespondence
    /\ raised = TooFewMessage

\* C5: a transform is never computed from fewer than 2 correspondence pairs: when
\* fewer than 2 pairs reach the solver, counted after matching and after the
\* outlier filter, the run ends in failure and no transformed point is output.
C5_AtLeastTwoPairs ==
    /\ R # None => Len(real_clean) >= 2
    /\ (pc = "done" /\ Called("kabsch_transform") /\ Len(real_clean) < 2) =>
           (drawn = <<>> /\ raised # "")

(***************************************************************************)
(* Properties of map_points.                                               *)
(***************************************************************************)
Hit(i) == IsKey(LabelOf(cogo_points[i]))

HitIndices == {i \in 1..Len(cogo_points) : Hit(i)}

\* the k-th smallest element of a set of indices
RECURSIVE KthOf(_, _)
KthOf(S, k) ==
    LET m == CHOOSE x \in S : \A y \in S : x <= y
    IN IF k = 1 THEN m ELSE KthOf(S \ {m}, k - 1)

ValueOfKey(label) ==
    vertex_labels[CHOOSE k \in 1..Len(vertex_labels) : vertex_labels[k].key = label].value

\* the pairs are the surveyed points whose label is a key, in surveyed order
PairsAreTheHits ==
    /\ Len(real_points) = Cardinality(HitIndices)
    /\ Len(ideal_points) = Cardinality(HitIndices)
    /\ \A k \in 1..Cardinality(HitIndices) :
          LET i == KthOf(HitIndices, k) IN
          /\ real_points[k] = Position(cogo_points[i])
          /\ ideal_points[k] = ValueOfKey(LabelOf(cogo_points[i]))

Reported(i) == LabelOf(cogo_points[i]) \in missing_labels

\* C6 as stated: a surveyed point yields exactly one pair, in surveyed order, if and
\* only if its normalized label is a key; otherwise it yields no pair and its label
\* is in the unmatched set; an empty label never yields a pair; the pairs and the
\* unmatched points together are all the surveyed points.
C6_Partition ==
    pc = "check" =>
        /\ PairsAreTheHits
        /\ \A i \in 1..Len(cogo_points) : ~Hit(i) => Reported(i)
        /\ \A i \in 1..Len(cogo_points) : LabelOf(cogo_points[i]) = <<>> => ~Hit(i)
        /\ Len(real_points) + Cardinality({i \in 1..Len(cogo_points) : Reported(i)})
               = Len(cogo_points)

\* C6 (amended): a surveyed point yields exactly one pair, in surveyed order, if and
\* only if its normalized label is a key; a point whose normalized label is not
\* empty and is no key yields no pair and its label is in the unmatched set; a
\* point whose normalized label is empty yields no pair and is not in the unmatched
\* set; the unmatched set holds nothing else.  The pairs, the points reported
\* unmatched and the points with an empty label together are all the surveyed
\* points.
C6_PartitionExceptEmpty ==
    pc = "check" =>
        /\ PairsAreTheHits
        /\ \A i \in 1..Len(cogo_points) :
              (~Hit(i) /\ LabelOf(cogo_points[i]) # <<>>) => Reported(i)
        /\ \A i \in 1..Len(cogo_points) :
              LabelOf(cogo_points[i]) = <<>> => (~Hit(i) /\ ~Reported(i))
        /\ \A i \in 1..Len(cogo_points) : Hit(i) => ~Reported(i)
        /\ missing_labels \subseteq
               {LabelOf(cogo_points[i]) : i \in 1..Len(cogo_points)}
        /\ Len(real_points)
               + Cardinality({i \in 1..Len(cogo_points) : Reported(i)})
               + Cardinality({i \in 1..Len(cogo_points) :
                                 LabelOf(cogo_points[i]) = <<>>})
               = Len(cogo_points)

\* three surveyed points: one matched only after trimming and upper-casing, one
\* with a label that is no key, one with a blank label
C6_Witness ==
    /\ pc = "check"
    /\ Len(cogo_points) = 3
    /\ cogo_points[1].Description = <<" ", "v", "1", "-", "2">>
    /\ cogo_points[2].Description = <<"P", "9">>
    /\ cogo_points[3].Description = <<" ">>
    /\ Len(real_points) = 1
    /\ missing_labels = {<<"P", "9">>}

\* C9: the ideal mapping has exactly one entry per vertex, keyed "V{p}-{v}" for
\* the v-th vertex of the p-th polyline (1-based) and, before the texts are
\* associated, holding that vertex's position; there is no other key, the keys are
\* distinct, and associating the texts never adds, removes or renames a key.
C9_IdealMapping ==
    pc \in {"texts", "cogo"} =>
        /\ Len(vertex_labels) = Cardinality(VertexSlots(polylines))
        /\ \A slot \in VertexSlots(polylines) :
              \E k \in 1..Len(vertex_labels) :
                 /\ vertex_labels[k].key = KeyOf(slot)
                 /\ text_idx = 1 =>
                       vertex_labels[k].value = polylines[slot[1]].Vertices[slot[2]]
        /\ \A k \in 1..Len(vertex_labels) :
              \E slot \in VertexSlots(polylines) : vertex_labels[k].key = KeyOf(slot)
        /\ \A j, k \in 1..Len(vertex_labels) :
              j # k => vertex_labels[j].key # vertex_labels[k].key

\* two polylines of two vertices, both texts handled, a position refined
C9_Witness ==
    /\ pc = "cogo"
    /\ Len(polylines) = 2
    /\ Len(vertex_labels) = 4
    /\ text_idx = 3
    /\ vertex_labels[1].value = <<3, 0>>
    /\ vertex_labels[4].key = <<"V", "2", "-", "2">>

\* C10: the texts are handled in order; each selects the label whose current
\* position is nearest to it, the first in insertion order among equally near
\* ones; that label's position becomes the text's position if and only if the
\* distance is strictly below 5.0, and every other label is left as it was.
C10_Refinement ==
    [][pc = "texts" =>
         LET pos == texts[text_idx].Position
             near(k) == DistSq(pos, vertex_labels[k].value)
         IN /\ text_idx' = text_idx + 1
            /\ Len(vertex_labels') = Len(vertex_labels)
            /\ \E k \in 1..Len(vertex_labels) :
                  /\ \A j \in 1..(k - 1) : near(j) > near(k)
                  /\ \A j \in (k + 1)..Len(vertex_labels) : near(j) >= near(k)
                  /\ vertex_labels'[k].key = vertex_labels[k].key
                  /\ (vertex_labels'[k].value = pos) <=> (near(k) < 5 * 5)
                  /\ near(k) >= 5 * 5 => vertex_labels' = vertex_labels
                  /\ \A j \in 1..Len(vertex_labels) :
                        j # k => vertex_labels'[j] = vertex_labels[j]]_vars

\* a text equally near to two labels moved the first of them, and the next text,
\* within the threshold only of the moved position, moved it again
C10_Witness ==
    /\ polylines = <<Poly(<<<<0, 0>>, <<6, 0>>>>)>>
    /\ texts = <<Text(<<3, 0>>), Text(<<3, 4>>)>>
    /\ text_idx = 3
    /\ vertex_labels[1].value = <<3, 4>>
    /\ vertex_labels[2].value = <<6, 0>>

(***************************************************************************)
(* Properties of remove_outliers and kabsch_transform.                     *)
(***************************************************************************)
NoConsensus ==
    \A s \in Trials(Len(real_points)) :
        TrialInliers(real_points, ideal_points, s[1], s[2]) = {}

\* C7: the filter returns its input pairs at some indices, in order, the same
\* indices on the real and on the ideal side; it returns the input unchanged when
\* the fit fails or finds no consensus; a non-empty input gives a non-empty output.
C7_FilterSubset ==
    (pc = "solve" /\ Len(real_points) >= 1) =>
        /\ \E keep \in SUBSET (1..Len(real_points)) :
              /\ keep # {}
              /\ real_clean = SelectMask(real_points, keep, 1)
              /\ ideal_clean = SelectMask(ideal_points, keep, 1)
        /\ (fit_failed \/ NoConsensus \/ Len(real_points) < 2) =>
              (real_clean = real_points /\ ideal_clean = ideal_points)
        /\ real_clean # <<>>

\* two pairs whose fit leaves both outside the threshold: the fit found no
\* consensus and the filter returned its input
C7_Witness ==
    /\ pc = "solve"
    /\ Len(real_points) = 2
    /\ NoConsensus
    /\ fit_failed
    /\ real_clean = real_points
    /\ ideal_clean = ideal_points

\* C8: for a non-empty list of pairs the solver returns a proper rotation: an
\* orthogonal matrix of determinant +1, also when U @ Vt had determinant -1.
C8_ProperRotation ==
    (pc = "apply" /\ real_clean # <<>>) =>
        /\ R # None
        /\ Det(R) = 1
        /\ MatMul(R, Transpose(R)) = <<<<1, 0>>, <<0, 1>>>>

\* a triangle and its mirror image: H is diag(-18, 6), every decomposition of it
\* has det(U @ Vt) = -1, and the rotation returned is the corrected one
C8_Witness ==
    /\ pc = "apply"
    /\ real_clean = <<<<-1, 0>>, <<1, 0>>, <<0, 1>>>>
    /\ ideal_clean = <<<<1, 0>>, <<-1, 0>>, <<0, 1>>>>
    /\ \A d \in Svd(CrossCovariance(real_clean, ideal_clean)) : NeedsCorrection(d)
    /\ R = <<<<-1, 0>>, <<0, -1>>>>

====
